---------------------------- MODULE Spec2Model ----------------------------
(***************************************************************************)
(* A model of portfolio_tracker.py: the holdings loader and valuation      *)
(* (read_portfolio_from_excel, portfolio_tracker) and the monthly dividend *)
(* aggregation (get_dividend_portfolio, fetch_dividends, dividend_tracker).*)
(*                                                                         *)
(* Python str values are sequences of one-character strings.  A Decimal is *)
(* a record [k, c, e]: k = "fin" is the number c * 10^e, k = "nan" is the  *)
(* quiet NaN, k = "inf" is an infinity of sign c, and k = "raise" stands   *)
(* for an operation that raised decimal.InvalidOperation.                  *)
(***************************************************************************)
EXTENDS Integers, Sequences, FiniteSets, TLC

VARIABLES
    pc,                 \* position of the running script
    status_code,        \* HTTP status of the spreadsheet download
    columns,            \* df.columns: the column names of the sheet
    rows,               \* the data rows of the sheet, one record of cells each
    colIdx,             \* index of the next required column to look for
    rowIdx,             \* index of the next row of df.iterrows()
    portfolio,          \* the list of holdings being built / returned
    errors,             \* st.error messages, in order
    warnings,           \* st.warning messages, in order
    totals,             \* total_invested, total_current, total_gain
    tickers_in,         \* the tickers text area, split at ","
    quantities_in,      \* the quantities text area, split at ","
    feed,               \* what yfinance answers for each ticker
    year,               \* the year picked in the select box
    itemIdx,            \* index of the next item of the dividend portfolio
    monthly_dividends,  \* the dict month -> Decimal
    total_div           \* sum(monthly_dividends.values())

vars == <<pc, status_code, columns, rows, colIdx, rowIdx, portfolio, errors,
          warnings, totals, tickers_in, quantities_in, feed, year, itemIdx,
          monthly_dividends, total_div>>

portfolioVars == <<status_code, columns, rows, colIdx, rowIdx, totals>>
dividendVars == <<tickers_in, quantities_in, feed, year, itemIdx,
                  monthly_dividends, total_div>>

-----------------------------------------------------------------------------
(* Bounds of the model. *)

\* Largest number of data rows in the spreadsheet.
MaxRows == 2

\* Largest number of comma-separated pieces in each dividend text area.
MaxPieces == 2

-----------------------------------------------------------------------------
(* Python str helpers. *)

\* str.strip() with no argument removes leading and trailing whitespace.
RECURSIVE LStrip(_)
LStrip(s) == IF s # <<>> /\ Head(s) = " " THEN LStrip(Tail(s)) ELSE s

RECURSIVE RStrip(_)
RStrip(s) ==
    IF s # <<>> /\ s[Len(s)] = " " THEN RStrip(SubSeq(s, 1, Len(s) - 1)) ELSE s

Strip(s) == RStrip(LStrip(s))

\* str.endswith(suffix)
EndsWith(s, suffix) ==
    /\ Len(s) >= Len(suffix)
    /\ SubSeq(s, Len(s) - Len(suffix) + 1, Len(s)) = suffix

\* str.lower() on the letters of the model's alphabet.
LowerChar(ch) ==
    CASE ch = "N" -> "n"
      [] ch = "A" -> "a"
      [] ch = "S" -> "s"
      [] ch = "T" -> "t"
      [] ch = "C" -> "c"
      [] ch = "I" -> "i"
      [] ch = "F" -> "f"
      [] OTHER -> ch

Lower(s) == [i \in 1..Len(s) |-> LowerChar(s[i])]

Digits == <<"0", "1", "2", "3", "4", "5", "6", "7", "8", "9">>

IsDigit(ch) == \E d \in 1..Len(Digits) : Digits[d] = ch

DigitVal(ch) == (CHOOSE d \in 1..Len(Digits) : Digits[d] = ch) - 1

\* The decimal digits of a natural number, most significant first.
RECURSIVE NatDigits(_)
NatDigits(n) ==
    IF n < 10 THEN <<Digits[n + 1]>>
    ELSE Append(NatDigits(n \div 10), Digits[(n % 10) + 1])

\* The value of a sequence of digit characters.
RECURSIVE DigitsVal(_)
DigitsVal(s) ==
    IF s = <<>> THEN 0
    ELSE 10 * DigitsVal(SubSeq(s, 1, Len(s) - 1)) + DigitVal(s[Len(s)])

RECURSIVE Zeros(_)
Zeros(n) == IF n <= 0 THEN <<>> ELSE <<"0">> \o Zeros(n - 1)

RECURSIVE Pow10(_)
Pow10(n) == IF n <= 0 THEN 1 ELSE 10 * Pow10(n - 1)

Abs(x) == IF x < 0 THEN -x ELSE x

Sign(x) == IF x < 0 THEN -1 ELSE 1

-----------------------------------------------------------------------------
(* Spreadsheet cells as pandas hands them to the script. *)

\* A text cell: a Python str.
StrCell(s) == [k |-> "str", s |-> s, c |-> 0, e |-> 0]

\* An empty cell: pandas reads it as the float NaN.
NanCell == [k |-> "nan", s |-> <<>>, c |-> 0, e |-> 0]

\* A numeric cell of value c * 10^e (e <= 0); e = 0 is an int cell.
NumCell(c, e) == [k |-> "num", s |-> <<>>, c |-> c, e |-> e]

\* ds padded with leading zeros to at least width digits.
PadLeft(ds, width) == Zeros(width - Len(ds)) \o ds

\* The digits p with a "." before the last -e of them.
Positional(p, e) ==
    SubSeq(p, 1, Len(p) + e) \o <<".">> \o SubSeq(p, Len(p) + e + 1, Len(p))

SignStr(c) == IF c < 0 THEN <<"-">> ELSE <<>>

\* repr of a number in positional notation: sign, integer part and, for a
\* float, "." and the fraction.
NumRepr(c, e) ==
    IF e = 0 THEN SignStr(c) \o NatDigits(Abs(c))
    ELSE SignStr(c) \o Positional(PadLeft(NatDigits(Abs(c)), 1 - e), e)

\* str(value) of a cell value.
PyStr(cell) ==
    CASE cell.k = "str" -> cell.s
      [] cell.k = "nan" -> <<"n", "a", "n">>
      [] cell.k = "num" -> NumRepr(cell.c, cell.e)

-----------------------------------------------------------------------------
(* decimal.Decimal *)

Fin(c, e) == [k |-> "fin", c |-> c, e |-> e]
NaN == [k |-> "nan", c |-> 0, e |-> 0]
Inf(sgn) == [k |-> "inf", c |-> sgn, e |-> 0]
Raised == [k |-> "raise", c |-> 0, e |-> 0]

\* A numeric string without its sign: digits with at most one ".", and at
\* least one digit.
NumericBody(body) ==
    /\ \E i \in 1..Len(body) : IsDigit(body[i])
    /\ \A i \in 1..Len(body) : IsDigit(body[i]) \/ body[i] = "."
    /\ Cardinality({i \in 1..Len(body) : body[i] = "."}) <= 1

\* The position of the ".", or one past the end when there is none.
DotPos(body) ==
    IF \E i \in 1..Len(body) : body[i] = "."
    THEN CHOOSE i \in 1..Len(body) : body[i] = "."
    ELSE Len(body) + 1

\* The Decimal of a numeric string: every digit goes into the coefficient,
\* the exponent is minus the number of digits after the ".".
FinOfBody(body, sgn, dot) ==
    Fin(sgn * DigitsVal(SubSeq(body, 1, dot - 1)
                          \o SubSeq(body, dot + 1, Len(body))),
        IF dot > Len(body) THEN 0 ELSE dot - Len(body))

DecimalOfBody(body, sgn) ==
    CASE body = <<"n", "a", "n">> -> NaN
      [] body = <<"i", "n", "f">> -> Inf(sgn)
      [] body = <<"i", "n", "f", "i", "n", "i", "t", "y">> -> Inf(sgn)
      [] NumericBody(body) -> FinOfBody(body, sgn, DotPos(body))
      [] OTHER -> Raised

DecimalOfStripped(t) ==
    IF t # <<>> /\ Head(t) \in {"+", "-"}
    THEN DecimalOfBody(Tail(t), IF Head(t) = "-" THEN -1 ELSE 1)
    ELSE DecimalOfBody(t, 1)

\* Decimal(s) for a str s: surrounding whitespace is ignored; an optional sign,
\* then "nan", "inf", "infinity" in any case, or digits with at most one ".".
\* Anything else raises InvalidOperation.  (Exponent notation and "_" are not
\* in the model's alphabet.)
DecimalOfStr(s) == DecimalOfStripped(Lower(Strip(s)))

\* try: ... except: return Decimal('0')
OrZero(d) == IF d = Raised THEN Fin(0, 0) ELSE d

\* to_decimal(value)
to_decimal(value) == OrZero(DecimalOfStr(PyStr(value)))

\* Decimal.__mul__ (exact: the coefficients of the model stay far below the
\* 28 digits of the default context).
DecMul(a, b) ==
    CASE a.k = "raise" \/ b.k = "raise" -> Raised
      [] a.k = "nan" \/ b.k = "nan" -> NaN
      [] a.k = "inf" /\ b.k = "inf" -> Inf(a.c * b.c)
      [] a.k = "inf" -> IF b.c = 0 THEN Raised ELSE Inf(a.c * Sign(b.c))
      [] b.k = "inf" -> IF a.c = 0 THEN Raised ELSE Inf(b.c * Sign(a.c))
      [] OTHER -> Fin(a.c * b.c, a.e + b.e)

Min(x, y) == IF x < y THEN x ELSE y

\* The sum of two finite Decimals at the exponent e, the smaller of theirs.
AlignedSum(a, b, e) ==
    Fin(a.c * Pow10(a.e - e) + b.c * Pow10(b.e - e), e)

\* Decimal.__add__
DecAdd(a, b) ==
    CASE a.k = "raise" \/ b.k = "raise" -> Raised
      [] a.k = "nan" \/ b.k = "nan" -> NaN
      [] a.k = "inf" /\ b.k = "inf" -> IF a.c = b.c THEN a ELSE Raised
      [] a.k = "inf" -> a
      [] b.k = "inf" -> b
      [] OTHER -> AlignedSum(a, b, Min(a.e, b.e))

\* Decimal.__neg__ as used by subtraction
DecNeg(a) ==
    CASE a.k = "fin" -> Fin(-a.c, a.e)
      [] a.k = "inf" -> Inf(-a.c)
      [] OTHER -> a

\* Decimal.__sub__
DecSub(a, b) == DecAdd(a, DecNeg(b))

\* The number of decimal places decimal_round keeps by default.
DefaultPlaces == 2

\* c / d rounded to the nearest integer, ties away from zero (ROUND_HALF_UP).
DivHalfUp(c, d) ==
    Sign(c) * ((Abs(c) \div d) + (IF 2 * (Abs(c) % d) >= d THEN 1 ELSE 0))

\* Decimal.quantize(Decimal('1.' + '0' * places), rounding=ROUND_HALF_UP)
QuantizeHalfUp(value, places) ==
    CASE value.k = "raise" -> Raised
      [] value.k = "nan" -> NaN
      [] value.k = "inf" -> Raised
      [] value.e >= -places -> Fin(value.c * Pow10(value.e + places), -places)
      [] OTHER -> Fin(DivHalfUp(value.c, Pow10(-places - value.e)), -places)

\* decimal_round with the context's default rounding (ROUND_HALF_EVEN) in
\* place of ROUND_HALF_UP.
decimal_round_half_even(value) ==
    CASE value.k = "raise" -> Raised
      [] value.k = "nan" -> NaN
      [] value.k = "inf" -> Raised
      [] value.e >= -DefaultPlaces ->
            Fin(value.c * Pow10(value.e + DefaultPlaces), -DefaultPlaces)
      [] 2 * (Abs(value.c) % Pow10(-DefaultPlaces - value.e))
             = Pow10(-DefaultPlaces - value.e) ->
            Fin(Sign(value.c)
                  * ((Abs(value.c) \div Pow10(-DefaultPlaces - value.e))
                       + ((Abs(value.c) \div Pow10(-DefaultPlaces - value.e)) % 2)),
                -DefaultPlaces)
      [] OTHER ->
            Fin(DivHalfUp(value.c, Pow10(-DefaultPlaces - value.e)),
                -DefaultPlaces)

\* decimal_round(value, places=2)
decimal_round(value) == QuantizeHalfUp(value, DefaultPlaces)

\* The int 0 that sum() starts from, as a Decimal operand.
Zero == Fin(0, 0)

-----------------------------------------------------------------------------
(* read_portfolio_from_excel *)

\* The required columns without the last one.
required_cols_without_last == <<"Symbol", "Quantity Available", "Average Price">>

required_cols ==
    <<"Symbol", "Quantity Available", "Average Price", "Previous Closing Price">>

\* The status code of a successful download.
HttpOk == 200

\* The exchange suffix '.NS'.
ExchangeSuffix == <<".", "N", "S">>

\* row.get(col, default) on a row of the data frame.
RowGet(row, col, default) == IF col \in DOMAIN row THEN row[col] ELSE default

\* The suffix appended whether or not it is there.
NormalizeTickerAlwaysAppend(ticker_raw) == ticker_raw \o ExchangeSuffix

\* ticker = ticker_raw if ticker_raw.endswith('.NS') else f"{ticker_raw}.NS"
NormalizeTicker(ticker_raw) ==
    IF EndsWith(ticker_raw, ExchangeSuffix) THEN ticker_raw
    ELSE ticker_raw \o ExchangeSuffix

\* ticker_raw = str(row.get('Symbol', '')).strip()
TickerRaw(row) == Strip(PyStr(RowGet(row, "Symbol", StrCell(<<>>))))

\* The holding with Gain/Loss taken from the unrounded products.
HoldingRecordRawGain(ticker_raw, shares, buy_price, prev_close, invested_amount, current_value) ==
    [Ticker |-> NormalizeTicker(ticker_raw),
     Company |-> ticker_raw,
     Shares |-> shares,
     BuyPrice |-> buy_price,
     PrevClose |-> prev_close,
     Invested |-> invested_amount,
     Current |-> current_value,
     GainLoss |-> decimal_round(DecSub(DecMul(shares, prev_close),
                                       DecMul(shares, buy_price)))]

\* Lines 54-65: gain_loss and the holding appended.
HoldingRecord(ticker_raw, shares, buy_price, prev_close, invested_amount, current_value) ==
    [Ticker |-> NormalizeTicker(ticker_raw),
     Company |-> ticker_raw,
     Shares |-> shares,
     BuyPrice |-> buy_price,
     PrevClose |-> prev_close,
     Invested |-> invested_amount,
     Current |-> current_value,
     GainLoss |-> decimal_round(DecSub(current_value, invested_amount))]

\* Lines 52-53: invested_amount and current_value.
Valued(ticker_raw, shares, buy_price, prev_close) ==
    HoldingRecord(ticker_raw, shares, buy_price, prev_close,
                  decimal_round(DecMul(shares, buy_price)),
                  decimal_round(DecMul(shares, prev_close)))

\* Lines 49-65: the holding of one row.
Holding(row) ==
    Valued(TickerRaw(row),
           to_decimal(RowGet(row, "Quantity Available", NumCell(0, 0))),
           to_decimal(RowGet(row, "Average Price", NumCell(0, 0))),
           to_decimal(RowGet(row, "Previous Closing Price", NumCell(0, 0))))

\* Whether a Decimal operation of lines 52-54 raised InvalidOperation, which
\* nothing catches.
HoldingRaises(h) == Raised \in {h.Invested, h.Current, h.GainLoss}

\* Lines 28-34: the download; a status other than 200 is reported and the
\* function returns [].
FetchExcel ==
    /\ pc = "read_start"
    /\ IF status_code # HttpOk
       THEN /\ errors' = Append(errors, [msg |-> "fetch_failed", col |-> ""])
            /\ pc' = "read_returned"
       ELSE /\ errors' = errors
            /\ pc' = "check_cols"
    /\ UNCHANGED <<status_code, columns, rows, colIdx, rowIdx, portfolio,
                   warnings, totals>>
    /\ UNCHANGED dividendVars

\* Lines 36-41: one iteration of the loop over required_cols; the first
\* missing column is reported and the function returns [].
CheckColumn ==
    /\ pc = "check_cols"
    /\ colIdx <= Len(required_cols)
    /\ IF required_cols[colIdx] \notin columns
       THEN /\ errors' = Append(errors, [msg |-> "missing_column",
                                         col |-> required_cols[colIdx]])
            /\ pc' = "read_returned"
            /\ colIdx' = colIdx
       ELSE /\ errors' = errors
            /\ colIdx' = colIdx + 1
            /\ pc' = IF colIdx = Len(required_cols) THEN "rows" ELSE pc
    /\ UNCHANGED <<status_code, columns, rows, rowIdx, portfolio, warnings,
                   totals>>
    /\ UNCHANGED dividendVars

\* One iteration of the row loop for a row whose holding would be h.
RowStep(ticker_raw, h) ==
    IF ticker_raw = <<>>
    THEN /\ portfolio' = portfolio
         /\ pc' = pc
    ELSE IF HoldingRaises(h)
    THEN /\ portfolio' = portfolio
         /\ pc' = "crashed"
    ELSE /\ portfolio' = Append(portfolio, h)
         /\ pc' = pc

\* Lines 42-65: one iteration of the loop over df.iterrows().
ProcessRow ==
    /\ pc = "rows"
    /\ rowIdx <= Len(rows)
    /\ RowStep(TickerRaw(rows[rowIdx]), Holding(rows[rowIdx]))
    /\ rowIdx' = rowIdx + 1
    /\ UNCHANGED <<status_code, columns, rows, colIdx, errors, warnings,
                   totals>>
    /\ UNCHANGED dividendVars

\* Line 66: return portfolio.
ReturnPortfolio ==
    /\ pc = "rows"
    /\ rowIdx > Len(rows)
    /\ pc' = "read_returned"
    /\ UNCHANGED <<status_code, columns, rows, colIdx, rowIdx, portfolio,
                   errors, warnings, totals>>
    /\ UNCHANGED dividendVars

-----------------------------------------------------------------------------
(* portfolio_tracker *)

\* sum(item[field] for item in portfolio): left to right from the int 0.
RECURSIVE SumField(_, _)
SumField(items, field) ==
    IF items = <<>> THEN Zero
    ELSE DecAdd(SumField(SubSeq(items, 1, Len(items) - 1), field),
                items[Len(items)][field])

\* sum(item["Shares"] * item[price] for item in portfolio), unrounded.
RECURSIVE SumProducts(_, _)
SumProducts(items, price) ==
    IF items = <<>> THEN Zero
    ELSE DecAdd(SumProducts(SubSeq(items, 1, Len(items) - 1), price),
                DecMul(items[Len(items)].Shares, items[Len(items)][price]))

\* The totals summed from the unrounded products and rounded once.
PortfolioTotalsSumThenRound(items) ==
    [invested |-> decimal_round(SumProducts(items, "BuyPrice")),
     current |-> decimal_round(SumProducts(items, "PrevClose")),
     gain |-> decimal_round(DecSub(SumProducts(items, "PrevClose"),
                                   SumProducts(items, "BuyPrice")))]

\* Lines 224-226.
PortfolioTotals(items) ==
    [invested |-> SumField(items, "Invested"),
     current |-> SumField(items, "Current"),
     gain |-> SumField(items, "GainLoss")]

\* total_gain >= 0: an ordering comparison with NaN raises InvalidOperation.
GainComparisonRaises(total_gain) == total_gain.k = "nan"

\* Lines 224-245 for the totals t.
Cards(t) ==
    /\ totals' = t
    /\ pc' = IF GainComparisonRaises(t.gain) THEN "crashed" ELSE "shown"

\* Lines 220-245, after read_portfolio_from_excel has returned: the warning
\* for an empty portfolio, else the totals, the comparison and the cards.
ShowTotals ==
    /\ pc = "read_returned"
    /\ IF portfolio = <<>>
       THEN /\ warnings' = Append(warnings, "no_portfolio_data")
            /\ totals' = totals
            /\ pc' = "done"
       ELSE /\ warnings' = warnings
            /\ Cards(PortfolioTotals(portfolio))
    /\ UNCHANGED <<status_code, columns, rows, colIdx, rowIdx, portfolio,
                   errors>>
    /\ UNCHANGED dividendVars

NextPortfolio == FetchExcel \/ CheckColumn \/ ProcessRow \/ ReturnPortfolio
                     \/ ShowTotals

-----------------------------------------------------------------------------
(* Inputs of the portfolio view. *)

Str_TCS == <<"T", "C", "S">>
Str_TCS_NS == <<"T", "C", "S", ".", "N", "S">>

\* Symbol cells: plain and suffixed tickers, padded text, the bare suffix,
\* an empty str, whitespace only, and an empty cell.
SymbolCells ==
    {StrCell(Str_TCS), StrCell(Str_TCS_NS),
     StrCell(<<" ", "A", ".", "N", "S", " ">>), StrCell(ExchangeSuffix),
     StrCell(<<>>), StrCell(<<" ">>), NanCell}

\* Quantity cells: 10, 0.5, an empty cell, the text "inf".
QuantityCells ==
    {NumCell(10, 0), NumCell(5, -1), NanCell, StrCell(<<"i", "n", "f">>)}

\* Average price cells: 0.01, 1.005, the text "x".
AveragePriceCells == {NumCell(1, -2), NumCell(1005, -3), StrCell(<<"x">>)}

\* Previous closing price cells: 0.01, 0.03, an empty cell.
PreviousCloseCells == {NumCell(1, -2), NumCell(3, -2), NanCell}

\* The column names a sheet of the model may carry.
SheetColumnNames ==
    {"Symbol", "Quantity Available", "Average Price", "Previous Closing Price"}

SeqsUpTo(S, n) == UNION {[1..m -> S] : m \in 0..n}

\* A row of a sheet that has the columns cols.
Row(cols, sym, qty, avg, prev) ==
    [col \in cols |->
        CASE col = "Symbol" -> sym
          [] col = "Quantity Available" -> qty
          [] col = "Average Price" -> avg
          [] col = "Previous Closing Price" -> prev]

NoTotals == [invested |-> Zero, current |-> Zero, gain |-> Zero]

InitDividendIdle ==
    /\ tickers_in = <<>>
    /\ quantities_in = <<>>
    /\ feed = <<>>
    /\ year = 0
    /\ itemIdx = 0
    /\ monthly_dividends = <<>>
    /\ total_div = Zero

InitPortfolioRun ==
    /\ pc = "read_start"
    /\ colIdx = 1
    /\ rowIdx = 1
    /\ portfolio = <<>>
    /\ errors = <<>>
    /\ warnings = <<>>
    /\ totals = NoTotals

\* Sheets that vary in their columns and symbol cells.
InitLoad ==
    /\ InitPortfolioRun
    /\ InitDividendIdle
    /\ status_code \in {HttpOk, 404}
    /\ columns \in SUBSET SheetColumnNames
    /\ rows \in SeqsUpTo({Row(columns, sym, NumCell(10, 0), NumCell(100, 0),
                              NumCell(120, 0)) : sym \in SymbolCells}, MaxRows)

\* Complete sheets that vary in their numeric cells.
InitValue ==
    /\ InitPortfolioRun
    /\ InitDividendIdle
    /\ status_code = HttpOk
    /\ columns = SheetColumnNames
    /\ rows \in SeqsUpTo({Row(columns, StrCell(Str_TCS), qty, avg, prev) :
                              qty \in QuantityCells, avg \in AveragePriceCells,
                              prev \in PreviousCloseCells}, MaxRows)

SpecLoad == InitLoad /\ [][NextPortfolio]_vars

SpecValue == InitValue /\ [][NextPortfolio]_vars

-----------------------------------------------------------------------------
(* get_dividend_portfolio *)

\* [x.strip() for x in pieces if x.strip()]
RECURSIVE StripNonEmpty(_)
StripNonEmpty(pieces) ==
    IF pieces = <<>> THEN <<>>
    ELSE IF Strip(Head(pieces)) = <<>> THEN StripNonEmpty(Tail(pieces))
    ELSE <<Strip(Head(pieces))>> \o StripNonEmpty(Tail(pieces))

\* Lines 166-169: zip(tickers, quantities) with to_decimal on each quantity.
ZipHoldings(tickers, quantities) ==
    [i \in 1..Min(Len(tickers), Len(quantities)) |->
        [Ticker |-> tickers[i], Shares |-> to_decimal(StrCell(quantities[i]))]]

\* Lines 159-169 on the stripped, non-empty pieces.
DividendPortfolioOf(tickers, quantities) ==
    IF Len(tickers) # Len(quantities) THEN <<>>
    ELSE ZipHoldings(tickers, quantities)

\* get_dividend_portfolio(): the list returned.
get_dividend_portfolio ==
    DividendPortfolioOf(StripNonEmpty(tickers_in), StripNonEmpty(quantities_in))

\* Whether get_dividend_portfolio reports unequal counts (line 162).
CountsDiffer ==
    Len(StripNonEmpty(tickers_in)) # Len(StripNonEmpty(quantities_in))

-----------------------------------------------------------------------------
(* fetch_dividends and dividend_tracker *)

\* The months of a year: range(1, 13).
Months == 1..12

\* The dict built over range(1, 12): December is left out.
InitialMonthlyWithoutDecember == [month \in 1..11 |-> Fin(0, 0)]

\* monthly_dividends = {month: Decimal("0") for month in range(1, 13)}
InitialMonthly == [month \in Months |-> Fin(0, 0)]

\* fetch_dividends(ticker): stock.dividends, or an empty Series when reading
\* it raises.
fetch_dividends(ticker) ==
    IF feed[ticker].raises THEN <<>> ELSE feed[ticker].series

\* int(year) for the str picked in the select box.
IntOfStr(s) == DigitsVal(s)

\* The Series with no year filter applied.
FilterYearKeepsAll(dividends, y) == dividends

\* dividends[dividends.index.year == int(year)]
FilterYear(dividends, y) ==
    SelectSeq(dividends, LAMBDA ev : ev.date.year = y)

\* The float sum of the values of the events of month m.  The amounts of the
\* model are whole numbers, for which float addition is exact.
RECURSIVE MonthSum(_, _)
MonthSum(events, m) ==
    IF events = <<>> THEN 0
    ELSE (IF Head(events).date.month = m THEN Head(events).value ELSE 0)
             + MonthSum(Tail(events), m)

\* The keys of groupby(index.month), ascending.
RECURSIVE Ascending(_)
Ascending(S) ==
    IF S = {} THEN <<>>
    ELSE <<CHOOSE x \in S : \A y \in S : x <= y>>
             \o Ascending(S \ {CHOOSE x \in S : \A y \in S : x <= y})

\* div_selected_year.groupby(div_selected_year.index.month).sum().items()
GroupByMonth(events) ==
    [i \in 1..Cardinality({events[j].date.month : j \in 1..Len(events)}) |->
        [month |-> Ascending({events[j].date.month : j \in 1..Len(events)})[i],
         sum |-> MonthSum(events,
                    Ascending({events[j].date.month : j \in 1..Len(events)})[i])]]

\* Decimal(div_value) for a float of whole-number value.
DecimalOfFloat(x) == Fin(x, 0)

\* monthly_dividends[month] += amount; a missing key would raise KeyError and
\* leave the dict as it is.
DictAdd(d, month, amount) ==
    IF month \in DOMAIN d THEN [d EXCEPT ![month] = DecAdd(d[month], amount)]
    ELSE d

\* Lines 197-198: the loop over monthly_sum.items().
RECURSIVE AddMonths(_, _, _)
AddMonths(d, items, shares) ==
    IF items = <<>> THEN d
    ELSE AddMonths(DictAdd(d, Head(items).month,
                           DecMul(shares, DecimalOfFloat(Head(items).sum))),
                   Tail(items), shares)

\* Lines 191-198 for a non-empty Series.
AddSeries(d, shares, dividends, y) ==
    AddMonths(d, GroupByMonth(FilterYear(dividends, y)), shares)

\* Lines 184-198: the dict after one item of the portfolio.
ItemStep(d, item, dividends, y) ==
    IF dividends = <<>> THEN d
    ELSE AddSeries(d, item.Shares, dividends, y)

\* Whether line 198 raises KeyError for this item.
KeyMissing(d, dividends, y) ==
    \E j \in 1..Len(dividends) :
        dividends[j].date.year = y /\ dividends[j].date.month \notin DOMAIN d

\* sum(monthly_dividends.values()): the values in key order, from the int 0.
RECURSIVE SumValues(_, _)
SumValues(d, keys) ==
    IF keys = <<>> THEN Zero
    ELSE DecAdd(SumValues(d, SubSeq(keys, 1, Len(keys) - 1)), d[keys[Len(keys)]])

\* Lines 174-181: the portfolio from the text areas, the warning for an empty
\* one, the year and the dict of twelve zeros.
StartDividends ==
    /\ pc = "div_start"
    /\ portfolio' = get_dividend_portfolio
    /\ errors' = IF CountsDiffer
                 THEN Append(errors, [msg |-> "count_mismatch", col |-> ""])
                 ELSE errors
    /\ IF get_dividend_portfolio = <<>>
       THEN /\ warnings' = Append(warnings, "enter_holdings")
            /\ monthly_dividends' = monthly_dividends
            /\ pc' = "done"
       ELSE /\ warnings' = warnings
            /\ monthly_dividends' = InitialMonthly
            /\ pc' = "div_loop"
    /\ UNCHANGED <<tickers_in, quantities_in, feed, year, itemIdx, total_div>>
    /\ UNCHANGED portfolioVars

\* The loop with "break" in place of "continue" for an empty Series.
AggregateItemBreakOnEmpty ==
    /\ pc = "div_loop"
    /\ itemIdx <= Len(portfolio)
    /\ monthly_dividends' =
           ItemStep(monthly_dividends, portfolio[itemIdx],
                    fetch_dividends(portfolio[itemIdx].Ticker), IntOfStr(year))
    /\ pc' = pc
    /\ itemIdx' = IF fetch_dividends(portfolio[itemIdx].Ticker) = <<>>
                  THEN Len(portfolio) + 1 ELSE itemIdx + 1
    /\ UNCHANGED <<tickers_in, quantities_in, feed, year, total_div, portfolio,
                   errors, warnings>>
    /\ UNCHANGED portfolioVars

\* Lines 183-198: one iteration of the loop over the portfolio.
AggregateItem ==
    /\ pc = "div_loop"
    /\ itemIdx <= Len(portfolio)
    /\ monthly_dividends' =
           ItemStep(monthly_dividends, portfolio[itemIdx],
                    fetch_dividends(portfolio[itemIdx].Ticker), IntOfStr(year))
    /\ pc' = IF KeyMissing(monthly_dividends,
                           fetch_dividends(portfolio[itemIdx].Ticker),
                           IntOfStr(year))
             THEN "crashed" ELSE pc
    /\ itemIdx' = itemIdx + 1
    /\ UNCHANGED <<tickers_in, quantities_in, feed, year, total_div, portfolio,
                   errors, warnings>>
    /\ UNCHANGED portfolioVars

\* Lines 200-210: the table of the twelve months and the total.
ShowDividends ==
    /\ pc = "div_loop"
    /\ itemIdx > Len(portfolio)
    /\ IF Months \subseteq DOMAIN monthly_dividends
       THEN /\ total_div' = SumValues(monthly_dividends,
                                      Ascending(DOMAIN monthly_dividends))
            /\ pc' = "div_shown"
       ELSE /\ total_div' = total_div
            /\ pc' = "crashed"
    /\ UNCHANGED <<tickers_in, quantities_in, feed, year, itemIdx,
                   monthly_dividends, portfolio, errors, warnings>>
    /\ UNCHANGED portfolioVars

NextDividend == StartDividends \/ AggregateItem \/ ShowDividends

-----------------------------------------------------------------------------
(* Inputs of the dividend view. *)

Str_A == <<"A">>
Str_B == <<"B">>

\* Pieces of the tickers text area: "A", " B " and an empty piece.
TickerPieces == {Str_A, <<" ", "B", " ">>, <<>>}

\* Pieces of the quantities text area: "2", " 1.5" and a blank piece.
QuantityPieces == {<<"2">>, <<" ", "1", ".", "5">>, <<" ">>}

Date(y, m, d) == [year |-> y, month |-> m, day |-> d]

Event(y, m, d, v) == [date |-> Date(y, m, d), value |-> v]

\* Series a ticker's history may be: empty, or events in date order over two
\* years, with two events in one month and events in two months of a year.
SeriesChoices ==
    {<<>>,
     <<Event(2024, 3, 10, 4)>>,
     <<Event(2025, 4, 15, 8)>>,
     <<Event(2024, 3, 10, 4), Event(2025, 3, 5, 1), Event(2025, 3, 20, 2)>>,
     <<Event(2025, 3, 5, 1), Event(2025, 3, 20, 2), Event(2025, 4, 15, 8)>>}

\* What reading stock.dividends does for a ticker: raise, or give a Series.
FeedChoices ==
    {[raises |-> TRUE, series |-> <<>>]}
        \cup {[raises |-> FALSE, series |-> ser] : ser \in SeriesChoices}

\* Years of the select box (its options are "2000" .. "2099").
YearChoices == {NatDigits(2024), NatDigits(2025)}

NonEmptySeqsUpTo(S, n) == UNION {[1..m -> S] : m \in 1..n}

InitPortfolioIdle ==
    /\ status_code = HttpOk
    /\ columns = {}
    /\ rows = <<>>
    /\ colIdx = 1
    /\ rowIdx = 1
    /\ totals = NoTotals

InitDividend ==
    /\ pc = "div_start"
    /\ InitPortfolioIdle
    /\ portfolio = <<>>
    /\ errors = <<>>
    /\ warnings = <<>>
    /\ tickers_in \in NonEmptySeqsUpTo(TickerPieces, MaxPieces)
    /\ quantities_in \in NonEmptySeqsUpTo(QuantityPieces, MaxPieces)
    /\ feed \in [{Str_A, Str_B} -> FeedChoices]
    /\ year \in YearChoices
    /\ itemIdx = 1
    /\ monthly_dividends = <<>>
    /\ total_div = Zero

SpecDividend == InitDividend /\ [][NextDividend]_vars

-----------------------------------------------------------------------------
(* Properties of the valuation (SpecValue). *)

\* r is the number c * 10^e (c >= 0) rounded to 2 decimal places, nearest
\* cent with a tie going up: with both written in units of
\* 10^-(2+k), k = max(0, -2-e), r - 1/2 cent <= c * 10^e < r + 1/2 cent.
IsHalfUpCents(r, c, e) ==
    /\ r.k = "fin"
    /\ r.e = -2
    /\ 2 * r.c * Pow10(-2 - e) - Pow10(-2 - e) <= 2 * c * Pow10(e + 2)
    /\ 2 * c * Pow10(e + 2) < 2 * r.c * Pow10(-2 - e) + Pow10(-2 - e)

NonNegative(d) == d.k = "fin" /\ d.c >= 0

\* C1: for every holding whose shares and prices are non-negative decimals,
\* Invested Amount is shares * average buy price rounded half-up to 2 places
\* and Current Value is shares * previous closing price rounded half-up to 2
\* places.
C1_RowValuesRoundedHalfUp ==
    \A i \in 1..Len(portfolio) :
        /\ (NonNegative(portfolio[i].Shares) /\ NonNegative(portfolio[i].BuyPrice))
              => IsHalfUpCents(portfolio[i].Invested,
                               portfolio[i].Shares.c * portfolio[i].BuyPrice.c,
                               portfolio[i].Shares.e + portfolio[i].BuyPrice.e)
        /\ (NonNegative(portfolio[i].Shares) /\ NonNegative(portfolio[i].PrevClose))
              => IsHalfUpCents(portfolio[i].Current,
                               portfolio[i].Shares.c * portfolio[i].PrevClose.c,
                               portfolio[i].Shares.e + portfolio[i].PrevClose.e)

\* A holding whose product shares * average price is exactly on a half cent
\* (0.5 * 0.01 = 0.005) and whose Invested Amount is the cent above (0.01).
C1_Witness ==
    \E i \in 1..Len(portfolio) :
        /\ portfolio[i].Shares = Fin(5, -1)
        /\ portfolio[i].BuyPrice = Fin(1, -2)
        /\ portfolio[i].Invested = Fin(1, -2)

\* The plain integer sum of a field's coefficients (cents).
RECURSIVE CentsSum(_, _)
CentsSum(items, field) ==
    IF items = <<>> THEN 0
    ELSE items[1][field].c + CentsSum(Tail(items), field)

AllRowsFinite ==
    \A i \in 1..Len(portfolio) :
        /\ portfolio[i].Invested.k = "fin" /\ portfolio[i].Invested.e = -2
        /\ portfolio[i].Current.k = "fin" /\ portfolio[i].Current.e = -2
        /\ portfolio[i].GainLoss.k = "fin" /\ portfolio[i].GainLoss.e = -2

\* C2: the totals shown are the exact sums of the rounded per-row Invested
\* Amount, Current Value and Gain/Loss (round, then sum).
C2_TotalsAreSumsOfRoundedRows ==
    pc = "shown" =>
        /\ AllRowsFinite
        /\ totals.invested = Fin(CentsSum(portfolio, "Invested"), -2)
        /\ totals.current = Fin(CentsSum(portfolio, "Current"), -2)
        /\ totals.gain = Fin(CentsSum(portfolio, "GainLoss"), -2)

\* Totals are shown for rows on half-cent boundaries, where summing the
\* unrounded products and rounding once would give another total.
C2_Witness ==
    /\ pc = "shown"
    /\ Len(portfolio) >= 2
    /\ decimal_round(SumProducts(portfolio, "BuyPrice")) # totals.invested
    /\ totals.invested = Fin(CentsSum(portfolio, "Invested"), -2)

\* C3: for every holding, Gain/Loss is Current Value minus Invested Amount
\* exactly: the value of the difference before the last rounding, and for
\* finite operands (both at 2 decimals) the difference of their cents.
C3_GainIsExactDifference ==
    \A i \in 1..Len(portfolio) :
        /\ portfolio[i].GainLoss = DecSub(portfolio[i].Current, portfolio[i].Invested)
        /\ (portfolio[i].Current.k = "fin" /\ portfolio[i].Invested.k = "fin")
              => /\ portfolio[i].Current.e = -2
                 /\ portfolio[i].Invested.e = -2
                 /\ portfolio[i].GainLoss =
                        Fin(portfolio[i].Current.c - portfolio[i].Invested.c, -2)

\* A holding with a loss: 0.5 shares bought at 1.005 (0.50), now at 0.01
\* (0.01), Gain/Loss -0.49.
C3_Witness ==
    \E i \in 1..Len(portfolio) :
        /\ portfolio[i].Invested = Fin(50, -2)
        /\ portfolio[i].Current = Fin(1, -2)
        /\ portfolio[i].GainLoss = Fin(-49, -2)

\* A cell that is no valid number: an empty cell, or text that is not digits
\* with an optional sign and ".".
MalformedCell(cell) ==
    \/ cell.k = "nan"
    \/ /\ cell.k = "str"
       /\ ~NumericBody(Strip(cell.s))
       /\ ~(Strip(cell.s) # <<>> /\ Head(Strip(cell.s)) \in {"+", "-"}
             /\ NumericBody(Tail(Strip(cell.s))))

\* C7: a quantity, average price or previous closing price cell that is no
\* valid number becomes zero, every derived value of the holding is a finite
\* 2-decimal number, and the refresh ends without an error.  (In SpecValue
\* every row has a symbol, so holding i comes from row i.)
C7_MalformedCellsBecomeZero ==
    /\ pc # "crashed"
    /\ \A i \in 1..Len(portfolio) :
        /\ MalformedCell(rows[i]["Quantity Available"])
              => portfolio[i].Shares = Fin(0, 0)
        /\ MalformedCell(rows[i]["Average Price"])
              => portfolio[i].BuyPrice = Fin(0, 0)
        /\ MalformedCell(rows[i]["Previous Closing Price"])
              => portfolio[i].PrevClose = Fin(0, 0)
        /\ portfolio[i].Invested.k = "fin" /\ portfolio[i].Invested.e = -2
        /\ portfolio[i].Current.k = "fin" /\ portfolio[i].Current.e = -2
        /\ portfolio[i].GainLoss.k = "fin" /\ portfolio[i].GainLoss.e = -2

-----------------------------------------------------------------------------
(* Properties of the loader (SpecLoad). *)

Downloaded == status_code = 200

MissingColumns == SheetColumnNames \ columns

\* The first of Symbol, Quantity Available, Average Price, Previous Closing
\* Price that the sheet lacks.
FirstMissingColumn ==
    CASE "Symbol" \notin columns -> "Symbol"
      [] "Quantity Available" \notin columns -> "Quantity Available"
      [] "Average Price" \notin columns -> "Average Price"
      [] OTHER -> "Previous Closing Price"

\* No row has been looked at and no holding exists.
NoRowProcessed == portfolio = <<>> /\ rowIdx = 1 /\ pc # "rows"

\* C8 as stated: with a required column absent, the function returns no
\* holdings, processes no row, and its error names the missing column(s),
\* every one of them.
C8_ErrorNamesEveryMissingColumn ==
    (Downloaded /\ MissingColumns # {}) =>
        /\ NoRowProcessed
        /\ pc \in {"read_returned", "done"} =>
              {errors[i].col : i \in 1..Len(errors)} = MissingColumns

\* C8 amended: with a required column absent, the function returns no
\* holdings, processes no row, and reports exactly one error, which names
\* the first missing column in the order of required_cols.
C8_ErrorNamesFirstMissingColumn ==
    (Downloaded /\ MissingColumns # {}) =>
        /\ NoRowProcessed
        /\ pc \in {"read_returned", "done"} =>
              errors = <<[msg |-> "missing_column", col |-> FirstMissingColumn]>>

\* The function has returned for a sheet with rows that lacks two columns.
C8_Witness ==
    /\ pc = "read_returned"
    /\ Downloaded
    /\ Cardinality(MissingColumns) = 2
    /\ Len(rows) = 2
    /\ Len(errors) = 1
    /\ portfolio = <<>>

\* A symbol cell that is empty, whitespace only or missing.
EmptySymbol(cell) ==
    \/ cell.k = "nan"
    \/ cell.k = "str" /\ \A i \in 1..Len(cell.s) : cell.s[i] = " "

\* C9: rows whose symbol cell is empty, whitespace only or missing give no
\* holding and no error; the holdings returned are as many as the rows with
\* a non-empty symbol.
C9_EmptySymbolRowsSkipped ==
    (pc = "read_returned" /\ Downloaded /\ MissingColumns = {}) =>
        /\ errors = <<>>
        /\ Len(portfolio)
              = Cardinality({i \in 1..Len(rows) : ~EmptySymbol(rows[i]["Symbol"])})

HasSuffixNS(s) ==
    Len(s) >= 3 /\ s[Len(s) - 2] = "." /\ s[Len(s) - 1] = "N" /\ s[Len(s)] = "S"

\* C10: the ticker of every holding ends in ".NS"; a raw symbol that ends in
\* ".NS" is kept as it is, any other gets ".NS" appended; normalizing the
\* ticker again changes nothing.
C10_SymbolNormalization ==
    \A i \in 1..Len(portfolio) :
        /\ HasSuffixNS(portfolio[i].Ticker)
        /\ HasSuffixNS(portfolio[i].Company)
              => portfolio[i].Ticker = portfolio[i].Company
        /\ ~HasSuffixNS(portfolio[i].Company)
              => portfolio[i].Ticker = portfolio[i].Company \o <<".", "N", "S">>
        /\ NormalizeTicker(portfolio[i].Ticker) = portfolio[i].Ticker

\* 'TCS' has become 'TCS.NS' and 'TCS.NS' has stayed 'TCS.NS'.
C10_Witness ==
    /\ Len(portfolio) = 2
    /\ portfolio[1].Company = <<"T", "C", "S">>
    /\ portfolio[1].Ticker = <<"T", "C", "S", ".", "N", "S">>
    /\ portfolio[2].Company = <<"T", "C", "S", ".", "N", "S">>
    /\ portfolio[2].Ticker = <<"T", "C", "S", ".", "N", "S">>

-----------------------------------------------------------------------------
(* Properties of the dividend aggregation (SpecDividend). *)

Aggregating == pc \in {"div_loop", "div_shown"}

\* The year of the select box as a number.
SelectedYear ==
    1000 * DigitVal(year[1]) + 100 * DigitVal(year[2]) + 10 * DigitVal(year[3])
        + DigitVal(year[4])

\* The events the feed gave for a ticker: none when reading it raised.
EventsOf(ticker) == IF feed[ticker].raises THEN <<>> ELSE feed[ticker].series

\* The sum of the per-share amounts of the events dated in year y, month m.
RECURSIVE AmountIn(_, _, _)
AmountIn(events, y, m) ==
    IF events = <<>> THEN 0
    ELSE AmountIn(Tail(events), y, m)
           + (IF events[1].date.year = y /\ events[1].date.month = m
              THEN events[1].value ELSE 0)

\* A finite Decimal in thousandths.
Thousandths(d) == d.c * Pow10(d.e + 3)

\* No entry of the portfolio has an event in month m of the selected year.
NoContribution(m) ==
    \A i \in 1..Len(portfolio) :
        AmountIn(EventsOf(portfolio[i].Ticker), SelectedYear, m) = 0

\* C4: from the start of the aggregation loop to the output, the monthly
\* mapping has exactly the keys 1..12, and at the output a month without a
\* contribution holds Decimal zero.
C4_TwelveMonthsAlways ==
    Aggregating =>
        /\ DOMAIN monthly_dividends = 1..12
        /\ pc = "div_shown" =>
              \A m \in 1..12 : NoContribution(m) => monthly_dividends[m] = Fin(0, 0)

\* The output is reached with a month that got a contribution and eleven or
\* fewer that got none.
C4_Witness ==
    /\ pc = "div_shown"
    /\ \E m \in 1..12 : NoContribution(m) /\ monthly_dividends[m] = Fin(0, 0)
    /\ \E m \in 1..12 : ~NoContribution(m) /\ monthly_dividends[m].c > 0

\* The sum over the first n entries of the portfolio of shares times the
\* amounts of the entry's events in month m of the selected year, in
\* thousandths.
RECURSIVE ExpectedBucket(_, _)
ExpectedBucket(n, m) ==
    IF n = 0 THEN 0
    ELSE ExpectedBucket(n - 1, m)
           + Thousandths(portfolio[n].Shares)
               * AmountIn(EventsOf(portfolio[n].Ticker), SelectedYear, m)

\* C5: every bucket m is the sum, over the entries processed so far (all of
\* them at the output, each entry counted, same symbol or not), of the
\* entry's shares times the per-share amounts of its symbol's events of the
\* selected year and month m.
C5_BucketsAreSharesTimesAmounts ==
    Aggregating =>
        \A m \in 1..12 :
            /\ m \in DOMAIN monthly_dividends
            /\ monthly_dividends[m].k = "fin"
            /\ Thousandths(monthly_dividends[m]) = ExpectedBucket(itemIdx - 1, m)

\* The output for two entries of one symbol whose history has events in the
\* selected year and in another year.
C5_Witness ==
    /\ pc = "div_shown"
    /\ Len(portfolio) = 2
    /\ portfolio[1].Ticker = portfolio[2].Ticker
    /\ portfolio[1].Shares # portfolio[2].Shares
    /\ \E j \in 1..Len(EventsOf(portfolio[1].Ticker)) :
          EventsOf(portfolio[1].Ticker)[j].date.year # SelectedYear
    /\ \E m \in 1..12 : monthly_dividends[m].c > 0

\* An entry whose fetch failed or gave no data.
NoData(i) == feed[portfolio[i].Ticker].raises
                 \/ feed[portfolio[i].Ticker].series = <<>>

\* The sum as in ExpectedBucket, over the entries that have data only.
RECURSIVE ExpectedFromData(_, _)
ExpectedFromData(n, m) ==
    IF n = 0 THEN 0
    ELSE ExpectedFromData(n - 1, m)
           + (IF NoData(n) THEN 0
              ELSE Thousandths(portfolio[n].Shares)
                     * AmountIn(feed[portfolio[n].Ticker].series, SelectedYear, m))

RECURSIVE ExpectedTotal(_)
ExpectedTotal(m) ==
    IF m = 0 THEN 0
    ELSE ExpectedTotal(m - 1) + ExpectedFromData(Len(portfolio), m)

\* C6: the run never aborts; at the output every entry has been visited and
\* the buckets and the total are what the entries with data give, as if the
\* entries whose fetch failed or was empty were not in the list.
C6_FailedFetchContributesZero ==
    /\ pc # "crashed"
    /\ pc = "div_shown" =>
          /\ itemIdx = Len(portfolio) + 1
          /\ \A m \in 1..12 :
                Thousandths(monthly_dividends[m])
                    = ExpectedFromData(Len(portfolio), m)
          /\ Thousandths(total_div) = ExpectedTotal(12)

\* The output for a list where an entry whose fetch raised comes before an
\* entry that has dividends in the selected year.
C6_Witness ==
    /\ pc = "div_shown"
    /\ \E i, j \in 1..Len(portfolio) :
          /\ i < j
          /\ feed[portfolio[i].Ticker].raises
          /\ ~NoData(j)
    /\ total_div.c > 0

=============================================================================
